---- MODULE Spec2Model ----
(***************************************************************************)
(* Atomic chess (qdow/atomic-chess): GameBoard.make_move and the methods   *)
(* it calls, GamePiece.Knight.is_valid_move and GamePiece.Pawn.            *)
(* is_valid_move, as a state machine.  One step is one call of make_move.  *)
(***************************************************************************)
EXTENDS Integers, Sequences, FiniteSets, TLC

VARIABLES
    board,        \* GameBoard._board: board[row][col], rows and columns 0..7
    game_state,   \* GameBoard._game_state
    player_turn,  \* GameBoard._player_turn
    king_status,  \* GameBoard._king_status
    ret,          \* what the last make_move call returned ("NONE" before any call)
    move,         \* the arguments of update_board in the last call (NoMove: not reached)
    movers,       \* colours of the pieces moved by the calls that returned True, in order
    call          \* the arguments of the last make_move call, where they are recorded

vars == <<board, game_state, player_turn, king_status, ret, move, movers, call>>

----------------------------------------------------------------------------
(* Bounds of the model. *)

\* make_move is called while fewer than MaxMoves calls have returned True
MaxMoves == 9

\* the same where the calls' arguments are recorded (SpecCalls)
MaxCallMoves == 7

\* the same for the games of the queen, the rooks and the bishops (SpecLines)
MaxLineMoves == 7

\* the same for the games of the two kings and Black's queen (SpecVeto)
MaxVetoMoves == 9

----------------------------------------------------------------------------
(* Pieces (GamePiece.py). *)

BoardSize == 8

Rows == 0 .. (BoardSize - 1)
Cols == 0 .. (BoardSize - 1)

None == [type |-> "None"]

GamePiece(type, color) == [type |-> type, color |-> color]

King(color) == GamePiece("King", color)
Queen(color) == GamePiece("Queen", color)
Rook(color) == GamePiece("Rook", color)
Bishop(color) == GamePiece("Bishop", color)
Knight(color) == GamePiece("Knight", color)
Pawn(color) == [type |-> "Pawn", color |-> color, is_first_turn |-> TRUE]

abs(x) == IF x < 0 THEN -x ELSE x

\* Knight.is_valid_move that knows one of the two shapes only
Knight_is_valid_move_two_rows(sq_from, sq_to) ==
    LET row_distance == abs(sq_from[1] - sq_to[1])
        col_distance == abs(sq_from[2] - sq_to[2])
    IN  IF row_distance = 2 /\ col_distance = 1 THEN "True" ELSE "False"

\* Knight.is_valid_move
Knight_is_valid_move(sq_from, sq_to) ==
    LET row_distance == abs(sq_from[1] - sq_to[1])
        col_distance == abs(sq_from[2] - sq_to[2])
    IN  IF row_distance = 2 /\ col_distance = 1 THEN "True"
        ELSE IF row_distance = 1 /\ col_distance = 2 THEN "True"
        ELSE "False"

\* Pawn.is_valid_move that leaves _is_first_turn set
Pawn_is_valid_move_flag_kept(self, direction, distance) ==
    IF direction = "b_DIAGONAL" /\ self.color = "BLACK" /\ distance = 1
    THEN [ret |-> "PAWN_CAPTURE", piece |-> self]
    ELSE IF direction = "w_DIAGONAL" /\ self.color = "WHITE" /\ distance = 1
    THEN [ret |-> "PAWN_CAPTURE", piece |-> self]
    ELSE IF direction # "b_FORWARD" /\ direction # "w_FORWARD"
    THEN [ret |-> "False", piece |-> self]
    ELSE LET black_valid == self.color = "BLACK" /\ direction = "b_FORWARD"
             white_valid == self.color = "WHITE" /\ direction = "w_FORWARD"
         IN  IF (black_valid \/ white_valid)
                /\ ((distance = 2 /\ self.is_first_turn) \/ distance = 1)
             THEN [ret |-> "True", piece |-> self]
             ELSE [ret |-> "False", piece |-> self]

\* Pawn.is_valid_move without the advance of two squares
Pawn_is_valid_move_one_square(self, direction, distance) ==
    IF direction = "b_DIAGONAL" /\ self.color = "BLACK" /\ distance = 1
    THEN [ret |-> "PAWN_CAPTURE", piece |-> self]
    ELSE IF direction = "w_DIAGONAL" /\ self.color = "WHITE" /\ distance = 1
    THEN [ret |-> "PAWN_CAPTURE", piece |-> self]
    ELSE IF direction # "b_FORWARD" /\ direction # "w_FORWARD"
    THEN [ret |-> "False", piece |-> self]
    ELSE LET black_valid == self.color = "BLACK" /\ direction = "b_FORWARD"
             white_valid == self.color = "WHITE" /\ direction = "w_FORWARD"
         IN  IF (black_valid \/ white_valid) /\ distance = 1
             THEN [ret |-> "True", piece |-> self]
             ELSE [ret |-> "False", piece |-> self]

\* Pawn.is_valid_move: the value returned and the pawn afterwards (the call
\* clears _is_first_turn when it grants a two-square advance)
Pawn_is_valid_move(self, direction, distance) ==
    IF direction = "b_DIAGONAL" /\ self.color = "BLACK" /\ distance = 1
    THEN [ret |-> "PAWN_CAPTURE", piece |-> self]
    ELSE IF direction = "w_DIAGONAL" /\ self.color = "WHITE" /\ distance = 1
    THEN [ret |-> "PAWN_CAPTURE", piece |-> self]
    ELSE IF direction # "b_FORWARD" /\ direction # "w_FORWARD"
    THEN [ret |-> "False", piece |-> self]
    ELSE LET black_valid == self.color = "BLACK" /\ direction = "b_FORWARD"
             white_valid == self.color = "WHITE" /\ direction = "w_FORWARD"
         IN  IF black_valid \/ white_valid
             THEN IF distance = 2 /\ self.is_first_turn
                  THEN [ret |-> "True",
                        piece |-> [self EXCEPT !.is_first_turn = FALSE]]
                  ELSE IF distance = 1
                  THEN [ret |-> "True", piece |-> self]
                  ELSE [ret |-> "False", piece |-> self]
             ELSE [ret |-> "False", piece |-> self]

----------------------------------------------------------------------------
(* GameBoard.py *)

BackRank(color) ==
    (0 :> Rook(color)) @@ (1 :> Knight(color)) @@ (2 :> Bishop(color)) @@
    (3 :> Queen(color)) @@ (4 :> King(color)) @@ (5 :> Bishop(color)) @@
    (6 :> Knight(color)) @@ (7 :> Rook(color))

initialize_board ==
    [row \in Rows |->
        CASE row = 0 -> BackRank("BLACK")
          [] row = 1 -> [col \in Cols |-> Pawn("BLACK")]
          [] row = 6 -> [col \in Cols |-> Pawn("WHITE")]
          [] row = 7 -> BackRank("WHITE")
          [] OTHER   -> [col \in Cols |-> None]]

\* the characters of the notation the model knows: str.isalpha, str.isnumeric,
\* str.lower and int on them
Lower ==
    ("a" :> "a") @@ ("b" :> "b") @@ ("c" :> "c") @@ ("d" :> "d") @@
    ("e" :> "e") @@ ("f" :> "f") @@ ("g" :> "g") @@ ("h" :> "h") @@
    ("i" :> "i") @@ ("E" :> "e")

int ==
    ("0" :> 0) @@ ("1" :> 1) @@ ("2" :> 2) @@ ("3" :> 3) @@ ("4" :> 4) @@
    ("5" :> 5) @@ ("6" :> 6) @@ ("7" :> 7) @@ ("8" :> 8) @@ ("9" :> 9)

isalpha(ch) == ch \in DOMAIN Lower
isnumeric(ch) == ch \in DOMAIN int

FileLetters == <<"a", "b", "c", "d", "e", "f", "g", "h">>

letter_to_num == [ch \in {FileLetters[i] : i \in 1 .. 8} |->
                    CHOOSE num \in Cols : FileLetters[num + 1] = ch]

\* GameBoard.notation_to_board_pos: <<row, col>>, <<-1, -1>> if invalid
notation_to_board_pos(chess_notation) ==
    IF Len(chess_notation) < 2 \/ Len(chess_notation) > 2 THEN <<-1, -1>>
    ELSE IF ~isalpha(chess_notation[1]) THEN <<-1, -1>>
    ELSE IF ~isnumeric(chess_notation[2]) THEN <<-1, -1>>
    ELSE IF int[chess_notation[2]] < 0 \/ int[chess_notation[2]] > 8
    THEN <<-1, -1>>
    ELSE LET row == abs(int[chess_notation[2]] - 8)
             col == Lower[chess_notation[1]]
         IN  IF col \notin DOMAIN letter_to_num THEN <<-1, -1>>
             ELSE <<row, letter_to_num[col]>>

\* GameBoard.move_direction
move_direction(sq_from, sq_to, piece) ==
    IF sq_from[1] = sq_to[1] \/ sq_from[2] = sq_to[2]
    THEN IF sq_from[1] - sq_to[1] > 0 /\ piece.type = "Pawn" THEN "w_FORWARD"
         ELSE IF sq_from[1] - sq_to[1] < 0 /\ piece.type = "Pawn" THEN "b_FORWARD"
         ELSE "STRAIGHT"
    ELSE IF abs(sq_from[1] - sq_to[1]) = abs(sq_from[2] - sq_to[2])
    THEN IF sq_from[1] - 1 = sq_to[1] /\ sq_from[2] - 1 = sq_to[2]
            /\ piece.type = "Pawn" THEN "w_DIAGONAL"
         ELSE IF sq_from[1] - 1 = sq_to[1] /\ sq_from[2] + 1 = sq_to[2]
            /\ piece.type = "Pawn" THEN "w_DIAGONAL"
         ELSE IF sq_from[1] + 1 = sq_to[1] /\ sq_from[2] - 1 = sq_to[2]
            /\ piece.type = "Pawn" THEN "b_DIAGONAL"
         ELSE IF sq_from[1] + 1 = sq_to[1] /\ sq_from[2] + 1 = sq_to[2]
            /\ piece.type = "Pawn" THEN "b_DIAGONAL"
         ELSE "DIAGONAL"
    ELSE "False"

\* GameBoard.piece_move: the value returned ("None": fell off the end) and
\* the piece afterwards
piece_move(direction, distance, piece) ==
    IF piece.type = "Queen" THEN [ret |-> "True", piece |-> piece]
    ELSE IF piece.type = "King"
    THEN [ret |-> IF distance = 1 THEN "True" ELSE "None", piece |-> piece]
    ELSE IF piece.type = "Rook"
    THEN [ret |-> IF direction = "STRAIGHT" THEN "True" ELSE "None", piece |-> piece]
    ELSE IF piece.type = "Bishop"
    THEN [ret |-> IF direction = "DIAGONAL" THEN "True" ELSE "None", piece |-> piece]
    ELSE IF piece.type = "Pawn" THEN Pawn_is_valid_move(piece, direction, distance)
    ELSE [ret |-> "False", piece |-> piece]

Truthy(v) == v \notin {"False", "None"}
Bool(b) == IF b THEN "True" ELSE "False"

\* clear_path_straight that does not look at the square next to the destination
clear_path_straight_short(b, sq_from, sq_to) ==
    LET from_row == sq_from[1]
        from_col == sq_from[2]
        to_row == sq_to[1]
        to_col == sq_to[2]
    IN  IF from_row - to_row > 0
        THEN Bool(\A row \in (to_row + 2) .. (from_row - 1) : b[row][from_col] = None)
        ELSE IF from_row - to_row < 0
        THEN Bool(\A row \in (from_row + 1) .. (to_row - 2) : b[row][from_col] = None)
        ELSE IF from_col - to_col > 0
        THEN Bool(\A col \in (to_col + 2) .. (from_col - 1) : b[from_row][col] = None)
        ELSE IF from_col - to_col < 0
        THEN Bool(\A col \in (from_col + 1) .. (to_col - 2) : b[from_row][col] = None)
        ELSE "False"

\* GameBoard.clear_path_straight
clear_path_straight(b, sq_from, sq_to) ==
    LET from_row == sq_from[1]
        from_col == sq_from[2]
        to_row == sq_to[1]
        to_col == sq_to[2]
    IN  IF from_row - to_row > 0
        THEN Bool(\A row \in (to_row + 1) .. (from_row - 1) : b[row][from_col] = None)
        ELSE IF from_row - to_row < 0
        THEN Bool(\A row \in (from_row + 1) .. (to_row - 1) : b[row][from_col] = None)
        ELSE IF from_col - to_col > 0
        THEN Bool(\A col \in (to_col + 1) .. (from_col - 1) : b[from_row][col] = None)
        ELSE IF from_col - to_col < 0
        THEN Bool(\A col \in (from_col + 1) .. (to_col - 1) : b[from_row][col] = None)
        ELSE "False"

\* GameBoard.clear_path_diagonal
clear_path_diagonal(b, sq_from, sq_to) ==
    LET from_row == sq_from[1]
        from_col == sq_from[2]
        to_row == sq_to[1]
        to_col == sq_to[2]
        row_direction == from_row - to_row
        col_direction == from_col - to_col
        distance == abs(from_row - to_row)
    IN  IF row_direction > 0 /\ col_direction > 0
        THEN Bool(\A shift \in 1 .. (distance - 1) :
                    b[from_row - shift][from_col - shift] = None)
        ELSE IF row_direction > 0 /\ col_direction < 0
        THEN Bool(\A shift \in 1 .. (distance - 1) :
                    b[from_row - shift][from_col + shift] = None)
        ELSE IF row_direction < 0 /\ col_direction > 0
        THEN Bool(\A shift \in 1 .. (distance - 1) :
                    b[from_row + shift][from_col - shift] = None)
        ELSE IF row_direction < 0 /\ col_direction < 0
        THEN Bool(\A shift \in 1 .. (distance - 1) :
                    b[from_row + shift][from_col + shift] = None)
        ELSE "False"

\* clear_path_pawn that does not look at the destination square
clear_path_pawn_between(b, sq_from, sq_to) ==
    LET from_row == sq_from[1]
        from_col == sq_from[2]
        to_row == sq_to[1]
    IN  IF from_row - to_row > 0
        THEN Bool(\A row \in (to_row + 1) .. (from_row - 1) : b[row][from_col] = None)
        ELSE IF from_row - to_row < 0
        THEN Bool(\A row \in (from_row + 1) .. (to_row - 1) : b[row][from_col] = None)
        ELSE "None"

\* GameBoard.clear_path_pawn
clear_path_pawn(b, sq_from, sq_to) ==
    LET from_row == sq_from[1]
        from_col == sq_from[2]
        to_row == sq_to[1]
    IN  IF from_row - to_row > 0
        THEN Bool(\A row \in to_row .. (from_row - 1) : b[row][from_col] = None)
        ELSE IF from_row - to_row < 0
        THEN IF \E row \in (from_row + 1) .. to_row :
                    row \in Rows /\ b[row][from_col] # None
             THEN "False"
             ELSE IF to_row \notin Rows THEN "IndexError"
             ELSE "True"
        ELSE "None"

\* GameBoard.pawn_capture
pawn_capture(b, sq_from, sq_to, color) ==
    LET from_row == sq_from[1]
        from_col == sq_from[2]
        to_row == sq_to[1]
        to_col == sq_to[2]
        row_direction == from_row - to_row
        col_direction == from_col - to_col
        capture ==
            IF row_direction > 0 /\ col_direction > 0
            THEN b[from_row - 1][from_col - 1] # None
            ELSE IF row_direction > 0 /\ col_direction < 0
            THEN b[from_row - 1][from_col + 1] # None
            ELSE IF row_direction < 0 /\ col_direction > 0
            THEN b[from_row + 1][from_col - 1] # None
            ELSE IF row_direction < 0 /\ col_direction < 0
            THEN b[from_row + 1][from_col + 1] # None
            ELSE FALSE
    IN  IF row_direction < 0 /\ col_direction # 0 /\ from_row + 1 \notin Rows
        THEN "IndexError"
        ELSE IF capture
        THEN LET target_square == b[sq_to[1]][sq_to[2]]
             IN  IF color = target_square.color THEN "False" ELSE "True"
        ELSE "False"

\* is_capture that lets a piece capture one of its own colour
is_capture_any_color(b, sq_from, sq_to, piece) ==
    LET target_square == b[sq_to[1]][sq_to[2]]
    IN  IF sq_to[1] \notin Rows THEN "IndexError"
        ELSE IF target_square # None
        THEN IF piece.type = "King" THEN "KING" ELSE "True"
        ELSE "False"

\* is_capture that lets the kings capture
is_capture_by_king(b, sq_from, sq_to, piece) ==
    LET target_square == b[sq_to[1]][sq_to[2]]
    IN  IF sq_to[1] \notin Rows THEN "IndexError"
        ELSE IF target_square # None /\ piece.color = target_square.color
        THEN "WRONG_COLOR"
        ELSE IF target_square # None THEN "True"
        ELSE "False"

\* GameBoard.is_capture
is_capture(b, sq_from, sq_to, piece) ==
    LET target_square == b[sq_to[1]][sq_to[2]]
    IN  IF sq_to[1] \notin Rows THEN "IndexError"
        ELSE IF target_square # None /\ piece.color = target_square.color
        THEN "WRONG_COLOR"
        ELSE IF target_square # None
        THEN IF piece.type = "King" THEN "KING" ELSE "True"
        ELSE "False"

\* GameBoard.valid_move from "if piece_move_valid == ..." on: the path checks
valid_move_path(b, sq_from, sq_to, piece, direction, piece_move_valid) ==
    IF piece_move_valid.ret = "PAWN_CAPTURE"
    THEN [ret |-> IF pawn_capture(b, sq_from, sq_to, piece.color) = "IndexError"
                  THEN "IndexError"
                  ELSE IF Truthy(pawn_capture(b, sq_from, sq_to, piece.color))
                  THEN "PAWN_CAPTURE" ELSE "False",
          piece |-> piece_move_valid.piece]
    ELSE IF Truthy(piece_move_valid.ret)
    THEN [ret |->
            IF piece.type \in {"Queen", "King"} /\ direction = "STRAIGHT"
            THEN clear_path_straight(b, sq_from, sq_to)
            ELSE IF piece.type \in {"Queen", "King"} /\ direction = "DIAGONAL"
            THEN clear_path_diagonal(b, sq_from, sq_to)
            ELSE IF piece.type = "Rook" THEN clear_path_straight(b, sq_from, sq_to)
            ELSE IF piece.type = "Bishop" THEN clear_path_diagonal(b, sq_from, sq_to)
            ELSE IF piece.type = "Pawn" THEN clear_path_pawn(b, sq_from, sq_to)
            ELSE "None",
          piece |-> piece_move_valid.piece]
    ELSE [ret |-> "False", piece |-> piece_move_valid.piece]

\* GameBoard.valid_move from "distance = ..." on, the direction being known
valid_move_distance(b, sq_from, sq_to, piece, direction) ==
    LET distance == IF direction = "STRAIGHT" /\ sq_from[1] = sq_to[1]
                    THEN sq_from[2] - sq_to[2]
                    ELSE abs(sq_from[1] - sq_to[1])
    IN  valid_move_path(b, sq_from, sq_to, piece, direction,
                        piece_move(direction, distance, piece))

\* GameBoard.valid_move: the value returned and the piece afterwards
valid_move_direction(b, sq_from, sq_to, piece, direction) ==
    IF direction = "False" THEN [ret |-> "False", piece |-> piece]
    ELSE valid_move_distance(b, sq_from, sq_to, piece, direction)

valid_move(b, sq_from, sq_to, piece) ==
    valid_move_direction(b, sq_from, sq_to, piece,
                         move_direction(sq_from, sq_to, piece))

\* update_turn that leaves the turn as it is
update_turn_kept(turn) == turn

\* GameBoard.update_turn
update_turn(turn) == IF turn = "WHITE" THEN "BLACK" ELSE "WHITE"

\* the 3x3 explosion spot of sq_to, without the squares over the edge
Blast(sq_to) ==
    {sq \in Rows \X Cols : abs(sq[1] - sq_to[1]) <= 1 /\ abs(sq[2] - sq_to[2]) <= 1}

\* explosion without the check of the two kings
explosion_apply_unchecked(b, ks, sq_to, explode_list) ==
    [ret |-> "True",
     board |-> [row \in Rows |-> [col \in Cols |->
         IF <<row, col>> = sq_to /\ b[row][col].type = "Pawn" THEN None
         ELSE IF <<row, col>> \in explode_list /\ b[row][col].type # "Pawn"
         THEN None
         ELSE b[row][col]]],
     king_status |-> ks]

\* explosion that takes the pawns of the spot off the board too
explosion_apply_pawns(b, ks, sq_to, explode_list) ==
    IF ks["WHITE"] = FALSE /\ ks["BLACK"] = FALSE
    THEN [ret |-> "False", board |-> b, king_status |-> ks]
    ELSE [ret |-> "True",
          board |-> [row \in Rows |-> [col \in Cols |->
              IF <<row, col>> \in explode_list THEN None ELSE b[row][col]]],
          king_status |-> ks]

\* explosion that runs over the edge of the board to the opposite edge
explosion_apply_over_edge(b, ks, sq_to, explode_list) ==
    IF ks["WHITE"] = FALSE /\ ks["BLACK"] = FALSE
    THEN [ret |-> "False", board |-> b, king_status |-> ks]
    ELSE [ret |-> "True",
          board |-> [row \in Rows |-> [col \in Cols |->
              IF /\ (row - sq_to[1]) % BoardSize \in {0, 1, BoardSize - 1}
                 /\ (col - sq_to[2]) % BoardSize \in {0, 1, BoardSize - 1}
                 /\ (b[row][col].type # "Pawn" \/ <<row, col>> = sq_to)
              THEN None
              ELSE b[row][col]]],
          king_status |-> ks]

\* GameBoard.explosion after its scan: explode_list holds the occupied squares
\* of the spot, ks is _king_status as the scan left it
explosion_apply(b, ks, sq_to, explode_list) ==
    IF ks["WHITE"] = FALSE /\ ks["BLACK"] = FALSE
    THEN [ret |-> "False", board |-> b, king_status |-> ks]
    ELSE [ret |-> "True",
          board |-> [row \in Rows |-> [col \in Cols |->
              IF abs(row - sq_to[1]) > 1 \/ abs(col - sq_to[2]) > 1 THEN b[row][col]
              ELSE IF <<row, col>> = sq_to /\ b[row][col].type = "Pawn" THEN None
              ELSE IF <<row, col>> \in explode_list /\ b[row][col].type # "Pawn"
              THEN None
              ELSE b[row][col]]],
          king_status |-> ks]

\* GameBoard.explosion: the value returned, the board and _king_status afterwards
explosion_scan(b, ks, sq_to, explode_list) ==
    explosion_apply(b,
        [color \in {"WHITE", "BLACK"} |->
            ks[color] /\ ~(\E sq \in explode_list : b[sq[1]][sq[2]] = King(color))],
        sq_to, explode_list)

explosion(b, ks, sq_to) ==
    explosion_scan(b, ks, sq_to, {sq \in Blast(sq_to) : b[sq[1]][sq[2]] # None})

\* update_win with the two results exchanged
update_win_exchanged(gs, ks) ==
    IF ks["WHITE"] = FALSE THEN "WHITE_WON"
    ELSE IF ks["BLACK"] = FALSE THEN "BLACK_WON"
    ELSE gs

\* GameBoard.update_win
update_win(gs, ks) ==
    IF ks["WHITE"] = FALSE THEN "BLACK_WON"
    ELSE IF ks["BLACK"] = FALSE THEN "WHITE_WON"
    ELSE gs

\* move_piece that leaves the piece on its origin too
move_piece_copied(b, sq_from, sq_to) ==
    [b EXCEPT ![sq_to[1]][sq_to[2]] = b[sq_from[1]][sq_from[2]]]

\* GameBoard.move_piece
move_piece(b, sq_from, sq_to) ==
    LET moved == [b EXCEPT ![sq_to[1]][sq_to[2]] = b[sq_from[1]][sq_from[2]]]
    IN  [moved EXCEPT ![sq_from[1]][sq_from[2]] = None]

\* update_board that leaves the capturing piece on its square
update_board_exploded_from_kept(b, gs, turn, ks, sq_from, explode) ==
    IF explode.ret = "False"
    THEN [ret |-> "False", board |-> b, game_state |-> gs,
          player_turn |-> update_turn(turn), king_status |-> explode.king_status]
    ELSE [ret |-> "True", board |-> explode.board,
          game_state |-> update_win(gs, explode.king_status),
          player_turn |-> update_turn(turn), king_status |-> explode.king_status]

\* GameBoard.update_board after its call of explosion, which returned explode
update_board_exploded(b, gs, turn, ks, sq_from, explode) ==
    IF explode.ret = "False"
    THEN [ret |-> "False", board |-> b, game_state |-> gs,
          player_turn |-> update_turn(turn), king_status |-> explode.king_status]
    ELSE [ret |-> "True",
          board |-> [explode.board EXCEPT ![sq_from[1]][sq_from[2]] = None],
          game_state |-> update_win(gs, explode.king_status),
          player_turn |-> update_turn(turn), king_status |-> explode.king_status]

\* GameBoard.update_board: the value returned and the game afterwards
update_board(b, gs, turn, ks, sq_from, sq_to, capture) ==
    IF capture
    THEN update_board_exploded(b, gs, turn, ks, sq_from, explosion(b, ks, sq_to))
    ELSE [ret |-> "True", board |-> move_piece(b, sq_from, sq_to),
          game_state |-> gs, player_turn |-> update_turn(turn), king_status |-> ks]

NoMove == [capture |-> "NONE"]

\* the board with the piece on sq as Pawn.is_valid_move left it
WithPiece(b, sq, piece) ==
    IF piece = b[sq[1]][sq[2]] THEN b ELSE [b EXCEPT ![sq[1]][sq[2]] = piece]

\* a make_move call that returns False at one of its own return statements
\* before it looked at a piece: the game afterwards
RejectedEarly(g) ==
    [ret |-> "False", board |-> g.board, game_state |-> g.game_state,
     player_turn |-> g.player_turn, king_status |-> g.king_status,
     move |-> NoMove, quiet |-> TRUE]

\* a make_move call that returns False after the validity check: the game
\* afterwards (quiet: the check left the piece as it was)
Rejected(g, sq_from, piece) ==
    [ret |-> "False", board |-> WithPiece(g.board, sq_from, piece),
     game_state |-> g.game_state, player_turn |-> g.player_turn,
     king_status |-> g.king_status, move |-> NoMove,
     quiet |-> piece = g.board[sq_from[1]][sq_from[2]]]

\* a make_move call that ends with an IndexError (a board row 8 was read):
\* the game as the exception leaves it
Raised(g, sq_from, piece) ==
    [ret |-> "IndexError", board |-> WithPiece(g.board, sq_from, piece),
     game_state |-> g.game_state, player_turn |-> g.player_turn,
     king_status |-> g.king_status, move |-> NoMove, quiet |-> FALSE]

\* the same before the call looked at a piece
RaisedEarly(g) ==
    [ret |-> "IndexError", board |-> g.board, game_state |-> g.game_state,
     player_turn |-> g.player_turn, king_status |-> g.king_status,
     move |-> NoMove, quiet |-> FALSE]

\* a make_move call that returns what update_board returned (u); piece is the
\* piece on sq_from as the validity check left it, target what sq_to held
Updated(sq_from, sq_to, piece, target, capture, u) ==
    [ret |-> u.ret, board |-> u.board, game_state |-> u.game_state,
     player_turn |-> u.player_turn, king_status |-> u.king_status,
     move |-> [capture |-> Bool(capture), sq_from |-> sq_from,
               sq_to |-> sq_to, piece |-> piece, target |-> target],
     quiet |-> FALSE]

\* GameBoard.make_move from "now to check if move is a capture" on; valid is
\* what the validity check returned, with the piece as the check left it
make_move_capture(g, sq_from, sq_to, valid) ==
    IF valid.ret = "IndexError" THEN Raised(g, sq_from, valid.piece)
    ELSE IF valid.ret = "PAWN_CAPTURE"
    THEN Updated(sq_from, sq_to, valid.piece, g.board[sq_to[1]][sq_to[2]], TRUE,
                 update_board(WithPiece(g.board, sq_from, valid.piece), g.game_state,
                              g.player_turn, g.king_status, sq_from, sq_to, TRUE))
    ELSE IF ~Truthy(valid.ret) THEN Rejected(g, sq_from, valid.piece)
    ELSE IF is_capture(g.board, sq_from, sq_to, valid.piece) = "IndexError"
    THEN Raised(g, sq_from, valid.piece)
    ELSE IF is_capture(g.board, sq_from, sq_to, valid.piece) \in {"KING", "WRONG_COLOR"}
    THEN Rejected(g, sq_from, valid.piece)
    ELSE Updated(sq_from, sq_to, valid.piece, g.board[sq_to[1]][sq_to[2]],
                 is_capture(g.board, sq_from, sq_to, valid.piece) = "True",
                 update_board(WithPiece(g.board, sq_from, valid.piece), g.game_state,
                              g.player_turn, g.king_status, sq_from, sq_to,
                              is_capture(g.board, sq_from, sq_to, valid.piece) = "True"))

\* GameBoard.make_move from "see if the move is valid" on
make_move_valid(g, sq_from, sq_to, piece) ==
    make_move_capture(g, sq_from, sq_to,
        IF piece.type = "Knight"
        THEN [ret |-> Knight_is_valid_move(sq_from, sq_to), piece |-> piece]
        ELSE valid_move(g.board, sq_from, sq_to, piece))

\* the early validity checks without the check of the colour
make_move_squares_any_color(g, sq_from, sq_to) ==
    IF sq_from = <<-1, -1>> \/ sq_to = <<-1, -1>> THEN RejectedEarly(g)
    ELSE IF sq_from[1] \notin Rows THEN RaisedEarly(g)
    ELSE IF g.board[sq_from[1]][sq_from[2]] = None THEN RejectedEarly(g)
    ELSE IF sq_from = sq_to THEN RejectedEarly(g)
    ELSE make_move_valid(g, sq_from, sq_to, g.board[sq_from[1]][sq_from[2]])

\* GameBoard.make_move from "early validity checks" on
make_move_squares(g, sq_from, sq_to) ==
    IF sq_from = <<-1, -1>> \/ sq_to = <<-1, -1>> THEN RejectedEarly(g)
    ELSE IF sq_from[1] \notin Rows THEN RaisedEarly(g)
    ELSE IF g.board[sq_from[1]][sq_from[2]] = None THEN RejectedEarly(g)
    ELSE IF sq_from = sq_to THEN RejectedEarly(g)
    ELSE IF g.board[sq_from[1]][sq_from[2]].color # g.player_turn
    THEN RejectedEarly(g)
    ELSE make_move_valid(g, sq_from, sq_to, g.board[sq_from[1]][sq_from[2]])

\* make_move without the check of _game_state
make_move_any_state(g, from_notation, to_notation) ==
    make_move_squares(g, notation_to_board_pos(from_notation),
                      notation_to_board_pos(to_notation))

\* GameBoard.make_move on the game g: the value returned and the game afterwards
make_move(g, from_notation, to_notation) ==
    IF g.game_state # "UNFINISHED" THEN RejectedEarly(g)
    ELSE make_move_squares(g, notation_to_board_pos(from_notation),
                           notation_to_board_pos(to_notation))

----------------------------------------------------------------------------
(* The game: the callers' inputs and the specification. *)

\* the squares the players type: the e file, four squares of the f file (the
\* way of the f pawn and of the kings) and the square of White's king's knight
InRanks == {"1", "2", "3", "4", "5", "6", "7", "8"}
Notations ==
    ({"e"} \X InRanks) \cup ({"f"} \X {"2", "3", "4", "6"}) \cup {<<"g", "1">>}

NoCall == <<>>

Game == [board |-> board, game_state |-> game_state,
         player_turn |-> player_turn, king_status |-> king_status]

Init ==
    /\ board = initialize_board
    /\ game_state = "UNFINISHED"
    /\ player_turn = "WHITE"
    /\ king_status = [color \in {"WHITE", "BLACK"} |-> TRUE]
    /\ ret = "NONE"
    /\ move = NoMove
    /\ movers = <<>>
    /\ call = NoCall

\* the game after a call that had the outcome r
Returns(r) ==
    /\ board' = r.board
    /\ game_state' = r.game_state
    /\ player_turn' = r.player_turn
    /\ king_status' = r.king_status
    /\ ret' = r.ret
    /\ move' = r.move
    /\ movers' = IF r.ret = "True" THEN Append(movers, r.move.piece.color)
                 ELSE movers

\* One call of make_move.  The calls that return False and leave every object
\* as it was all lead to the same state: they are taken together.
MakeMove ==
    /\ Len(movers) < MaxMoves
    /\ UNCHANGED call
    /\ \/ IF \E from_notation \in Notations, to_notation \in Notations :
                make_move(Game, from_notation, to_notation).quiet
          THEN /\ ret' = "False"
               /\ move' = NoMove
               /\ UNCHANGED <<board, game_state, player_turn, king_status, movers>>
          ELSE FALSE
       \/ \E from_notation \in Notations, to_notation \in Notations :
             LET r == make_move(Game, from_notation, to_notation)
             IN  ~r.quiet /\ Returns(r)

Next == MakeMove

Spec == Init /\ [][Next]_vars

----------------------------------------------------------------------------
(* The same game with the arguments of every call recorded.  Every call is  *)
(* a step of its own; a behaviour is followed while its calls return True.  *)

\* what is typed for the first call: every square of the board, and strings
\* that are no square
AnyNotations ==
    ({"a", "b", "c", "d", "e", "f", "g", "h"} \X InRanks) \cup
    {<<"e", "0">>, <<"e", "9">>, <<"i", "1">>, <<"E", "2">>, <<"2", "e">>,
     <<"e">>, <<"e", "1", "0">>}

\* what is typed for the later calls: the squares on the way of the two kings
\* and of the e and f pawns, and the way of White's queen's knight to a7
CallNotations ==
    ({"e"} \X {"1", "2", "3", "4", "5", "7", "8"}) \cup
    ({"f"} \X {"2", "3", "4"}) \cup {<<"c", "3">>, <<"b", "5">>, <<"a", "7">>}

\* one call of make_move with the arguments from_notation and to_notation
Call(from_notation, to_notation) ==
    /\ Returns(make_move(Game, from_notation, to_notation))
    /\ call' = <<from_notation, to_notation>>

FirstCall ==
    /\ ret = "NONE"
    /\ \E from_notation \in AnyNotations, to_notation \in AnyNotations :
          Call(from_notation, to_notation)

LaterCall ==
    /\ ret = "True"
    /\ Len(movers) < MaxCallMoves
    /\ \E from_notation \in CallNotations, to_notation \in CallNotations :
          Call(from_notation, to_notation)

NextCall == FirstCall \/ LaterCall

SpecCalls == Init /\ [][NextCall]_vars

----------------------------------------------------------------------------
(* Games of White's queen, queen's rook and queen's bishop, with the        *)
(* arguments of every call recorded as in SpecCalls.                        *)

\* what is typed: the squares of the a and d pawns, squares the queen (d1,
\* d3, a3, a6, c4, e4, g6), the rook (a1, a3, d3) and the bishop (c1, f4, d6,
\* e7) go to, and the squares of the pieces that get in their way (the
\* knight of g8, by f6, and Black's e pawn, to e5)
LineNotations ==
    ({"a"} \X {"1", "2", "3", "4", "6"}) \cup
    ({"d"} \X {"1", "2", "3", "4", "6"}) \cup
    {<<"c", "1">>, <<"f", "4">>, <<"e", "7">>, <<"c", "4">>, <<"e", "4">>,
     <<"g", "6">>, <<"g", "8">>, <<"f", "6">>, <<"e", "5">>}

LineCall ==
    /\ ret \in {"NONE", "True"}
    /\ Len(movers) < MaxLineMoves
    /\ \E from_notation \in LineNotations, to_notation \in LineNotations :
          Call(from_notation, to_notation)

NextLine == LineCall

SpecLines == Init /\ [][NextLine]_vars

----------------------------------------------------------------------------
(* Games in which the two kings walk up to each other and Black's queen     *)
(* comes out, with the arguments of every call recorded as in SpecCalls.    *)
(* A behaviour is followed while its calls come to update the board.        *)

\* what is typed: the way of the two kings (e1, f2, e3, e4 and e8, e7, e6),
\* of the f and e pawns (f2, f4 and e7, e5) and of Black's queen (d8, h4, h2)
VetoNotations ==
    ({"e"} \X {"1", "3", "4", "5", "6", "7", "8"}) \cup
    ({"f"} \X {"2", "4"}) \cup {<<"d", "8">>, <<"h", "4">>, <<"h", "2">>}

VetoCall ==
    /\ ret = "NONE" \/ move # NoMove
    /\ Len(movers) < MaxVetoMoves
    /\ \E from_notation \in VetoNotations, to_notation \in VetoNotations :
          Call(from_notation, to_notation)

NextVeto == VetoCall

SpecVeto == Init /\ [][NextVeto]_vars

----------------------------------------------------------------------------
(* What the claims speak of. *)

Colors == {"WHITE", "BLACK"}
Other(color) == IF color = "WHITE" THEN "BLACK" ELSE "WHITE"
Won(color) == IF color = "WHITE" THEN "WHITE_WON" ELSE "BLACK_WON"

At(b, sq) == b[sq[1]][sq[2]]

\* piece kind and colour on every square
Grid(b) == [sq \in Rows \X Cols |->
              IF At(b, sq) = None THEN <<"None">>
              ELSE <<At(b, sq).type, At(b, sq).color>>]

\* the colours whose king stands in the 3x3 neighbourhood of sq_to
KingsIn(b, sq_to) == {c \in Colors : \E sq \in Blast(sq_to) : At(b, sq) = King(c)}

\* the step is a call that came to explode the neighbourhood of move'.sq_to
CaptureAttempt == move' # NoMove /\ move'.capture = "True"

\* the step is a call that returned True for a capture
AcceptedCapture == CaptureAttempt /\ ret' = "True"

\* the last call returned True for a capture
Captured == ret = "True" /\ move # NoMove /\ move.capture = "True"

----------------------------------------------------------------------------
(* The claims. *)

\* C1: a call that returns False leaves the grid (kind and colour on every
\* square), the turn and the result as they were.
C1_RejectionIsAtomic ==
    [][ret' = "False" =>
          /\ Grid(board') = Grid(board)
          /\ player_turn' = player_turn
          /\ game_state' = game_state]_vars

\* C2: the pieces moved by the calls that returned True are White's, Black's,
\* White's, ... in that order.
C2_MoversAlternate ==
    \A i \in 1 .. Len(movers) :
        movers[i] = IF i % 2 = 1 THEN "WHITE" ELSE "BLACK"

\* C3: a capture whose 3x3 neighbourhood holds both kings is rejected and no
\* square of the board changes.
C3_MutualDestructionVeto ==
    [][(CaptureAttempt /\ KingsIn(board, move'.sq_to) = Colors) =>
          (ret' = "False" /\ board' = board)]_vars

C3_Witness ==
    /\ ret = "False"
    /\ move # NoMove
    /\ move.capture = "True"
    /\ KingsIn(board, move.sq_to) = Colors
    /\ At(board, move.sq_from) = move.piece
    /\ At(board, move.sq_to) = move.target
    /\ move.target # None

\* C4: a capture rejected because its neighbourhood holds both kings leaves
\* both king-alive flags as they were.
C4_VetoKeepsKingStatus ==
    [][(CaptureAttempt /\ KingsIn(board, move'.sq_to) = Colors) =>
          king_status' = king_status]_vars

\* C5: while the game is unfinished, a capture that passed the validity checks
\* and whose neighbourhood holds at most one king is accepted, and if it holds
\* the king of colour c the result becomes the victory of the other colour.
C5_KingCaptureDecisive ==
    [][(/\ CaptureAttempt
        /\ game_state = "UNFINISHED"
        /\ Cardinality(KingsIn(board, move'.sq_to)) <= 1) =>
          /\ ret' = "True"
          /\ \A c \in Colors :
                KingsIn(board, move'.sq_to) = {c} => game_state' = Won(Other(c))]_vars

\* C6: once the result is WHITE_WON or BLACK_WON every call returns False and
\* the board, the turn, the result and the king-alive flags stay as they are.
C6_TerminalAbsorbing ==
    [][game_state # "UNFINISHED" =>
          /\ ret' = "False"
          /\ UNCHANGED <<board, player_turn, game_state, king_status>>]_vars

C6_Witness ==
    /\ game_state # "UNFINISHED"
    /\ ret = "False"
    /\ move = NoMove

\* C7: a decided result means exactly one king-alive flag is false: Black's
\* for WHITE_WON, White's for BLACK_WON.
C7_ResultInvariant ==
    game_state # "UNFINISHED" =>
        /\ Cardinality({c \in Colors : ~king_status[c]}) = 1
        /\ game_state = "WHITE_WON" <=> ~king_status["BLACK"]
        /\ game_state = "BLACK_WON" <=> ~king_status["WHITE"]

C7_Witness ==
    /\ game_state = "WHITE_WON"
    /\ king_status = [WHITE |-> TRUE, BLACK |-> FALSE]

\* C8: a call that returns True moved a piece of the colour whose turn it was,
\* in an unfinished game, and leaves the turn with the other colour.
C8_AcceptedFlipsTurn ==
    [][ret' = "True" =>
          /\ move'.piece.color = player_turn
          /\ game_state = "UNFINISHED"
          /\ player_turn' = Other(player_turn)]_vars

C8_Witness ==
    /\ Captured
    /\ Len(movers) >= 2
    /\ movers[Len(movers)] = move.piece.color
    /\ player_turn = Other(move.piece.color)

\* C9 as claimed: after an accepted capture every pawn of the neighbourhood,
\* the captured pawn on the destination included, the capturing piece on its
\* origin excepted, is still on its square.
C9_NoPawnExplodes ==
    [][AcceptedCapture =>
          \A sq \in Blast(move'.sq_to) \ {move'.sq_from} :
              At(board, sq).type = "Pawn" => At(board', sq) = At(board, sq)]_vars

\* C9 as amended: after an accepted capture every pawn of the neighbourhood
\* that is neither the capturing piece nor the captured one is still on its
\* square; a captured pawn is taken off the destination.
C9_OtherPawnsSurvive ==
    [][AcceptedCapture =>
          /\ \A sq \in Blast(move'.sq_to) \ {move'.sq_from, move'.sq_to} :
                At(board, sq).type = "Pawn" => At(board', sq) = At(board, sq)
          /\ At(board, move'.sq_to).type = "Pawn" =>
                At(board', move'.sq_to) = None]_vars

C9_Witness ==
    /\ Captured
    /\ move.target.type = "Pawn"
    /\ At(board, move.sq_to) = None
    /\ \E sq \in Blast(move.sq_to) \ {move.sq_from, move.sq_to} :
          At(board, sq).type = "Pawn"

\* C10: after an accepted capture the capturing piece is neither on its origin
\* nor on the destination, and every square of the neighbourhood that held a
\* piece other than a pawn is empty.
C10_CapturerDestroyed ==
    [][AcceptedCapture =>
          /\ At(board', move'.sq_from) = None
          /\ At(board', move'.sq_to) = None
          /\ \A sq \in Blast(move'.sq_to) :
                (At(board, sq) # None /\ At(board, sq).type # "Pawn") =>
                    At(board', sq) = None]_vars

C10_Witness ==
    /\ Captured
    /\ move.piece.type = "Knight"
    /\ move.sq_from \notin Blast(move.sq_to)
    /\ At(board, move.sq_from) = None
    /\ At(board, move.sq_to) = None

\* the row the pawns of a colour start on
PawnRow(color) == IF color = "WHITE" THEN 6 ELSE 1

\* C11: a pawn that has made an accepted forward move never advances two
\* squares again.  A pawn stays on its file and is destroyed when it captures,
\* so the pawns that have not moved are those on the row they started on: an
\* accepted two-square advance starts from that row.
C11_TwoSquaresOnlyOnce ==
    [][(/\ ret' = "True"
        /\ move'.piece.type = "Pawn"
        /\ move'.capture = "False"
        /\ abs(move'.sq_from[1] - move'.sq_to[1]) = 2) =>
          move'.sq_from[1] = PawnRow(move'.piece.color)]_vars

\* C12: a call that returns False leaves the first-move flag of every pawn as
\* it was.
C12_RejectionKeepsFirstTurn ==
    [][ret' = "False" =>
          \A sq \in Rows \X Cols :
              At(board, sq).type = "Pawn" => At(board', sq) = At(board, sq)]_vars

----------------------------------------------------------------------------
(* The claims about single calls (SpecCalls). *)

max(x, y) == IF x > y THEN x ELSE y

Squares == Rows \X Cols

\* the squares the arguments of the step's call stand for
CallFrom == notation_to_board_pos(call'[1])
CallTo == notation_to_board_pos(call'[2])

\* the squares the arguments of the last call stand for
CalledFrom == notation_to_board_pos(call[1])
CalledTo == notation_to_board_pos(call[2])

\* the step is a call, in an unfinished game, that moves a piece of the colour
\* whose turn it is from a square of the board to another one
MoveOfTurn ==
    /\ game_state = "UNFINISHED"
    /\ CallFrom \in Squares
    /\ CallTo \in Squares
    /\ CallFrom # CallTo
    /\ At(board, CallFrom) # None
    /\ At(board, CallFrom).color = player_turn

\* rows and columns between two squares
RowDelta(sq_from, sq_to) == abs(sq_from[1] - sq_to[1])
ColDelta(sq_from, sq_to) == abs(sq_from[2] - sq_to[2])

\* C13: a king move of the side to move to an empty square is accepted
\* exactly when the square is one step away in one of the eight directions.
C13_KingMovement ==
    [][(/\ MoveOfTurn
        /\ At(board, CallFrom).type = "King"
        /\ At(board, CallTo) = None) =>
          (ret' = "True" <=>
              max(RowDelta(CallFrom, CallTo), ColDelta(CallFrom, CallTo)) = 1)]_vars

\* C14: a king move onto a square that holds a piece of the other colour is
\* rejected and leaves the board as it is, and no accepted capture is made by
\* a king.
C14_KingsNeverCapture ==
    [][/\ (/\ MoveOfTurn
            /\ At(board, CallFrom).type = "King"
            /\ At(board, CallTo) # None
            /\ At(board, CallTo).color # player_turn) =>
              (ret' = "False" /\ board' = board)
       /\ AcceptedCapture => move'.piece.type # "King"]_vars

\* a king's capture one step up the board was the last call, and was rejected
C14_Witness ==
    /\ ret = "False"
    /\ call # NoCall
    /\ CalledFrom \in Squares
    /\ CalledTo \in Squares
    /\ At(board, CalledFrom) = King(player_turn)
    /\ At(board, CalledTo) # None
    /\ At(board, CalledTo).color = Other(player_turn)
    /\ CalledTo[2] = CalledFrom[2]
    /\ RowDelta(CalledFrom, CalledTo) = 1

\* the move has the shape of a knight's move
KnightShape(sq_from, sq_to) ==
    <<RowDelta(sq_from, sq_to), ColDelta(sq_from, sq_to)>> \in {<<2, 1>>, <<1, 2>>}

\* the squares of the smallest rectangle that holds both squares, the two
\* squares excepted: what a knight jumps over
Between(sq_from, sq_to) ==
    {sq \in Squares :
        /\ sq \notin {sq_from, sq_to}
        /\ RowDelta(sq, sq_from) + RowDelta(sq, sq_to) = RowDelta(sq_from, sq_to)
        /\ ColDelta(sq, sq_from) + ColDelta(sq, sq_to) = ColDelta(sq_from, sq_to)}

\* C15: a knight move of the side to move is rejected unless it goes two
\* squares one way and one square the other; one that does is accepted onto
\* an empty square, rejected onto a piece of its own colour, and onto a piece
\* of the other colour accepted unless the explosion is forbidden (no king
\* left alive outside the 3x3 neighbourhood of the destination).  So the
\* outcome is settled by the origin, the destination and the neighbourhood of
\* the destination, whatever stands on the squares the knight jumps over.
C15_KnightLegality ==
    [][(MoveOfTurn /\ At(board, CallFrom).type = "Knight") =>
          /\ ~KnightShape(CallFrom, CallTo) => ret' = "False"
          /\ (KnightShape(CallFrom, CallTo) /\ At(board, CallTo) = None) =>
                (/\ ret' = "True"
                 /\ At(board', CallTo) = At(board, CallFrom)
                 /\ At(board', CallFrom) = None)
          /\ (/\ KnightShape(CallFrom, CallTo)
              /\ At(board, CallTo) # None
              /\ At(board, CallTo).color = player_turn) => ret' = "False"
          /\ (/\ KnightShape(CallFrom, CallTo)
              /\ At(board, CallTo) # None
              /\ At(board, CallTo).color # player_turn) =>
                (ret' = "True" <=>
                    \E c \in Colors :
                        king_status[c] /\ c \notin KingsIn(board, CallTo))]_vars

\* an accepted knight move over an occupied square
C15_Witness ==
    /\ ret = "True"
    /\ call # NoCall
    /\ move.piece.type = "Knight"
    /\ move.capture = "False"
    /\ At(board, move.sq_to) = move.piece
    /\ \E sq \in Between(move.sq_from, move.sq_to) : At(board, sq) # None

\* C16: a move of the side to move onto a square that holds a piece of its
\* own colour is rejected and leaves kind and colour on every square as they
\* were; the square an accepted move goes to is empty or holds a piece of the
\* other colour.
C16_NoFriendlyCapture ==
    [][/\ (/\ MoveOfTurn
            /\ At(board, CallTo) # None
            /\ At(board, CallTo).color = player_turn) =>
              (ret' = "False" /\ Grid(board') = Grid(board))
       /\ ret' = "True" =>
              (move'.target = None \/ move'.target.color # move'.piece.color)]_vars

\* a pawn's diagonal step forward onto a piece of its own colour was the last
\* call, and was rejected
C16_Witness ==
    /\ ret = "False"
    /\ call # NoCall
    /\ CalledFrom \in Squares
    /\ CalledTo \in Squares
    /\ At(board, CalledFrom).type = "Pawn"
    /\ At(board, CalledFrom).color = player_turn
    /\ At(board, CalledTo) # None
    /\ At(board, CalledTo).color = player_turn
    /\ ColDelta(CalledFrom, CalledTo) = 1
    /\ CalledFrom[1] - CalledTo[1] = (IF player_turn = "WHITE" THEN 1 ELSE -1)

\* the string names a square of the board: a file letter a-h, in either case,
\* and a rank digit 1-8
IsSquare(chess_notation) ==
    /\ Len(chess_notation) = 2
    /\ chess_notation[1] \in DOMAIN Lower
    /\ Lower[chess_notation[1]] \in {FileLetters[i] : i \in 1 .. 8}
    /\ chess_notation[2] \in InRanks

\* C17: for a string that names no square notation_to_board_pos gives
\* (-1, -1), and a call with such a string for the origin or the destination
\* returns False and leaves the game as it was.
C17_InvalidSquaresRejected ==
    [][/\ ~IsSquare(call'[1]) => CallFrom = <<-1, -1>>
       /\ ~IsSquare(call'[2]) => CallTo = <<-1, -1>>
       /\ (~IsSquare(call'[1]) \/ ~IsSquare(call'[2])) =>
              /\ ret' = "False"
              /\ UNCHANGED <<board, game_state, player_turn, king_status>>]_vars

\* the kinds of the pieces of the first and the last row, by column
StandardRank == <<"Rook", "Knight", "Bishop", "Queen", "King", "Bishop", "Knight", "Rook">>

\* kind and colour on every square of the standard opening position
StandardGrid ==
    [sq \in Squares |->
        IF sq[1] = 0 THEN <<StandardRank[sq[2] + 1], "BLACK">>
        ELSE IF sq[1] = PawnRow("BLACK") THEN <<"Pawn", "BLACK">>
        ELSE IF sq[1] = PawnRow("WHITE") THEN <<"Pawn", "WHITE">>
        ELSE IF sq[1] = BoardSize - 1 THEN <<StandardRank[sq[2] + 1], "WHITE">>
        ELSE <<"None">>]

\* the 20 first moves of chess: every White pawn one or two squares straight
\* forward, and the knights b1-a3, b1-c3, g1-f3, g1-h3
FirstMoves ==
    {m \in Squares \X Squares :
        \/ /\ m[1][1] = PawnRow("WHITE")
           /\ m[2][2] = m[1][2]
           /\ m[1][1] - m[2][1] \in {1, 2}
        \/ /\ m[1] \in {<<BoardSize - 1, 1>>, <<BoardSize - 1, 6>>}
           /\ m[1][1] - m[2][1] = 2
           /\ ColDelta(m[1], m[2]) = 1}

\* C18: a new game has the 32 pieces on their standard squares, White to
\* move, the result open and both kings alive; its first call, with two
\* squares of the board, returns True exactly for the 20 first moves of chess
\* and False for every other pair; a call that returns True moves the piece
\* and leaves Black to move and the result open, one that returns False
\* leaves the game as it was.
C18_OpeningPosition ==
    [][ret = "NONE" =>
          /\ Grid(board) = StandardGrid
          /\ Cardinality({sq \in Squares : At(board, sq) # None}) = 32
          /\ player_turn = "WHITE"
          /\ game_state = "UNFINISHED"
          /\ king_status = [c \in Colors |-> TRUE]
          /\ Cardinality(FirstMoves) = 20
          /\ (IsSquare(call'[1]) /\ IsSquare(call'[2])) =>
                /\ ret' = IF <<CallFrom, CallTo>> \in FirstMoves THEN "True" ELSE "False"
                /\ ret' = "True" =>
                      /\ Grid(board') =
                            [Grid(board) EXCEPT ![CallFrom] = <<"None">>,
                                                ![CallTo] = Grid(board)[CallFrom]]
                      /\ player_turn' = "BLACK"
                      /\ game_state' = "UNFINISHED"
                      /\ king_status' = king_status
                /\ ret' = "False" =>
                      UNCHANGED <<board, game_state, player_turn, king_status>>]_vars

\* e2-e4, (6,4) -> (4,4), was the first call
C18_Witness ==
    /\ call = <<<<"e", "2">>, <<"e", "4">>>>
    /\ movers = <<"WHITE">>
    /\ ret = "True"
    /\ move.sq_from = <<6, 4>>
    /\ move.sq_to = <<4, 4>>
    /\ At(board, <<4, 4>>).type = "Pawn"
    /\ At(board, <<6, 4>>) = None
    /\ player_turn = "BLACK"
    /\ game_state = "UNFINISHED"

\* the squares of the board at most one row and one column away from sq
Around(sq) == {s \in Squares : RowDelta(s, sq) <= 1 /\ ColDelta(s, sq) <= 1}

\* C19: an accepted capture changes no square other than the origin of the
\* capturing piece and the squares at most one row and one column away from
\* the destination; a pawn on one of these squares, the destination and the
\* origin excepted, stays; if no king stands on them the result stays open and
\* both kings stay alive.
C19_BlastFrame ==
    [][AcceptedCapture =>
          /\ \A sq \in Squares \ (Around(move'.sq_to) \cup {move'.sq_from}) :
                At(board', sq) = At(board, sq)
          /\ \A sq \in Around(move'.sq_to) \ {move'.sq_to, move'.sq_from} :
                At(board, sq).type = "Pawn" => At(board', sq) = At(board, sq)
          /\ (\A sq \in Around(move'.sq_to) : At(board, sq).type # "King") =>
                /\ game_state' = "UNFINISHED"
                /\ king_status' = [c \in Colors |-> TRUE]]_vars

\* a capture on the first column, far from both kings, was accepted, and the
\* pieces of the last column are still there
C19_Witness ==
    /\ Captured
    /\ call # NoCall
    /\ move.sq_to[2] = 0
    /\ move.sq_from \notin Around(move.sq_to)
    /\ At(board, move.sq_to) = None
    /\ \A sq \in Around(move.sq_to) : At(board, sq).type \in {"None", "Pawn"}
    /\ At(board, <<0, BoardSize - 1>>) = Rook("BLACK")
    /\ game_state = "UNFINISHED"
    /\ king_status = [c \in Colors |-> TRUE]

\* the rows a pawn of the colour goes up the board by one step forward
Forward(color) == IF color = "WHITE" THEN 1 ELSE -1

\* the move is one square diagonally forward for the colour
PawnDiagonal(sq_from, sq_to, color) ==
    /\ sq_from[1] - sq_to[1] = Forward(color)
    /\ ColDelta(sq_from, sq_to) = 1

\* C20: an accepted pawn move onto an occupied square is a capture one square
\* diagonally forward of a piece of the other colour; a pawn's diagonal move
\* onto an empty square is rejected, and so is a pawn's move along its column
\* onto an occupied square.
C20_PawnCaptureRule ==
    [][/\ (ret' = "True" /\ move'.piece.type = "Pawn" /\ move'.target # None) =>
              /\ move'.capture = "True"
              /\ PawnDiagonal(move'.sq_from, move'.sq_to, move'.piece.color)
              /\ move'.target.color # move'.piece.color
       /\ (ret' = "True" /\ move'.piece.type = "Pawn" /\ move'.target = None) =>
              /\ move'.capture = "False"
              /\ move'.sq_to[2] = move'.sq_from[2]
       /\ (/\ MoveOfTurn
            /\ At(board, CallFrom).type = "Pawn"
            /\ RowDelta(CallFrom, CallTo) = ColDelta(CallFrom, CallTo)
            /\ At(board, CallTo) = None) => ret' = "False"
       /\ (/\ MoveOfTurn
            /\ At(board, CallFrom).type = "Pawn"
            /\ CallTo[2] = CallFrom[2]
            /\ At(board, CallTo) # None) => ret' = "False"]_vars

\* a pawn's capture was accepted
C20_Witness ==
    /\ Captured
    /\ call # NoCall
    /\ move.piece.type = "Pawn"
    /\ PawnDiagonal(move.sq_from, move.sq_to, move.piece.color)
    /\ move.target.color = Other(move.piece.color)
    /\ At(board, move.sq_from) = None
    /\ At(board, move.sq_to) = None

----------------------------------------------------------------------------
(* The claims about the moves of the pieces. *)

\* the pawns of a colour on a column
PawnsOn(b, color, col) ==
    {row \in Rows : b[row][col] # None /\ b[row][col].type = "Pawn"
                                      /\ b[row][col].color = color}

\* C21: an accepted pawn move that is no capture goes one or two squares
\* straight forward for its colour.  A pawn stays on its column until it is
\* destroyed, and no second pawn of its colour comes to that column; an
\* accepted advance of two squares is made by a pawn whose first-move flag is
\* set and clears it, and a cleared flag is never set again: so no pawn
\* advances two squares twice.
C21_PawnForward ==
    [][/\ (ret' = "True" /\ move'.piece.type = "Pawn" /\ move'.capture = "False") =>
              /\ move'.sq_to[2] = move'.sq_from[2]
              /\ move'.sq_from[1] - move'.sq_to[1] \in
                    {Forward(move'.piece.color), 2 * Forward(move'.piece.color)}
              /\ RowDelta(move'.sq_from, move'.sq_to) = 2 =>
                    /\ At(board, move'.sq_from).is_first_turn
                    /\ ~At(board', move'.sq_to).is_first_turn
       /\ \A color \in Colors, col \in Cols :
              /\ Cardinality(PawnsOn(board, color, col)) <= 1
              /\ Cardinality(PawnsOn(board', color, col)) <=
                    Cardinality(PawnsOn(board, color, col))
              /\ \A row \in PawnsOn(board, color, col), new \in PawnsOn(board', color, col) :
                    ~board[row][col].is_first_turn => ~board'[new][col].is_first_turn]_vars

\* a pawn that advanced two squares before has now moved one square on
C21_Witness ==
    /\ ret = "True"
    /\ move.piece.type = "Pawn"
    /\ move.capture = "False"
    /\ RowDelta(move.sq_from, move.sq_to) = 1
    /\ RowDelta(move.sq_from, <<PawnRow(move.piece.color), move.sq_from[2]>>) = 2
    /\ At(board, move.sq_to) = move.piece
    /\ ~move.piece.is_first_turn

\* the two squares are on one row, one column or one diagonal
Aligned(sq_from, sq_to) ==
    \/ sq_from[1] = sq_to[1]
    \/ sq_from[2] = sq_to[2]
    \/ RowDelta(sq_from, sq_to) = ColDelta(sq_from, sq_to)

\* -1, 0 or 1 as x is below, at or above 0
sign(x) == IF x < 0 THEN -1 ELSE IF x > 0 THEN 1 ELSE 0

\* the squares strictly between two squares of one row, column or diagonal
OnWay(sq_from, sq_to) ==
    {<<sq_from[1] + k * sign(sq_to[1] - sq_from[1]),
       sq_from[2] + k * sign(sq_to[2] - sq_from[2])>> :
        k \in 1 .. (max(RowDelta(sq_from, sq_to), ColDelta(sq_from, sq_to)) - 1)}

\* C22: a move of a queen, a rook, a bishop, a king or a pawn along a row, a
\* column or a diagonal with an occupied square strictly between origin and
\* destination is rejected; an accepted move of these pieces goes along a
\* row, a column or a diagonal over empty squares only.
C22_PathClearance ==
    [][/\ (/\ MoveOfTurn
            /\ At(board, CallFrom).type # "Knight"
            /\ Aligned(CallFrom, CallTo)
            /\ \E sq \in OnWay(CallFrom, CallTo) : At(board, sq) # None) =>
              ret' = "False"
       /\ (ret' = "True" /\ move'.piece.type # "Knight") =>
              /\ Aligned(move'.sq_from, move'.sq_to)
              /\ \A sq \in OnWay(move'.sq_from, move'.sq_to) : At(board, sq) = None]_vars

\* a queen, a rook or a bishop was called to an empty square along one of its
\* lines, over an occupied square, and the call was rejected
C22_Witness ==
    /\ ret = "False"
    /\ call # NoCall
    /\ CalledFrom \in Squares
    /\ CalledTo \in Squares
    /\ At(board, CalledFrom) # None
    /\ At(board, CalledFrom).color = player_turn
    /\ At(board, CalledTo) = None
    /\ \/ /\ At(board, CalledFrom).type \in {"Queen", "Bishop"}
          /\ RowDelta(CalledFrom, CalledTo) = ColDelta(CalledFrom, CalledTo)
       \/ /\ At(board, CalledFrom).type \in {"Queen", "Rook"}
          /\ (CalledFrom[1] = CalledTo[1] \/ CalledFrom[2] = CalledTo[2])
    /\ Cardinality({sq \in OnWay(CalledFrom, CalledTo) : At(board, sq) # None}) = 1

\* the line pieces
LinePieces == {"Queen", "Rook", "Bishop"}

\* the move from sq_from to sq_to has the geometry of the moves of a rook, a
\* bishop or a queen
Geometry(type, sq_from, sq_to) ==
    LET straight == sq_from[1] = sq_to[1] \/ sq_from[2] = sq_to[2]
        diagonal == /\ RowDelta(sq_from, sq_to) = ColDelta(sq_from, sq_to)
                    /\ RowDelta(sq_from, sq_to) > 0
    IN  \/ type = "Rook" /\ straight
        \/ type = "Bishop" /\ diagonal
        \/ type = "Queen" /\ (straight \/ diagonal)

\* C23: a call that moves a queen, a rook or a bishop of the side to move,
\* with no piece on the squares of the line between origin and destination,
\* to an empty square or onto a piece of the other colour whose explosion
\* would not take both kings, is accepted exactly when origin and destination
\* share a row or a column (rook), lie on one diagonal (bishop), or either
\* (queen).
C23_LinePieceLegality ==
    [][(/\ MoveOfTurn
        /\ At(board, CallFrom).type \in LinePieces
        /\ \/ At(board, CallTo) = None
           \/ /\ At(board, CallTo).color # player_turn
              /\ KingsIn(board, CallTo) # Colors
        /\ Aligned(CallFrom, CallTo) =>
              \A sq \in OnWay(CallFrom, CallTo) : At(board, sq) = None) =>
          (ret' = "True" <=> Geometry(At(board, CallFrom).type, CallFrom, CallTo))]_vars

\* the number of pieces on the board b
Pieces(b) == Cardinality({sq \in Squares : At(b, sq) # None})

\* the step is a call that returned True for a move to an empty square
AcceptedQuietMove == ret' = "True" /\ move' # NoMove /\ move'.target = None

\* C24: after an accepted move to an empty square the destination holds the
\* kind and colour of piece the origin held, the origin is empty, every other
\* square holds what it held, the number of pieces is the same, and the
\* result and the two king flags are as before.
C24_QuietMoveFrame ==
    [][AcceptedQuietMove =>
          /\ Grid(board')[move'.sq_to] = Grid(board)[move'.sq_from]
          /\ At(board', move'.sq_from) = None
          /\ \A sq \in Squares \ {move'.sq_from, move'.sq_to} :
                At(board', sq) = At(board, sq)
          /\ Pieces(board') = Pieces(board)
          /\ game_state' = game_state
          /\ king_status' = king_status]_vars

\* a piece went to an empty square, the call returned True
C24_Witness ==
    /\ ret = "True"
    /\ move # NoMove
    /\ move.target = None
    /\ At(board, move.sq_to) # None
    /\ At(board, move.sq_to).type = move.piece.type
    /\ At(board, move.sq_from) = None

\* C25: a call whose origin square is empty, holds a piece of the colour
\* whose turn it is not, or is its destination, returns False and leaves the
\* board, the result, the turn and the king flags as they were; a call that
\* returns True has a piece of the side to move on its origin and another
\* square as its destination.
C25_PreconditionRejections ==
    [][/\ (/\ CallFrom \in Squares
           /\ \/ At(board, CallFrom) = None
              \/ At(board, CallFrom).color # player_turn
              \/ CallFrom = CallTo) =>
             /\ ret' = "False"
             /\ UNCHANGED <<board, game_state, player_turn, king_status>>
       /\ ret' = "True" =>
             /\ CallFrom \in Squares
             /\ At(board, CallFrom) # None
             /\ At(board, CallFrom).color = player_turn
             /\ CallFrom # CallTo]_vars

\* a call to move a piece of the side that is not to move was rejected
C25_Witness ==
    /\ ret = "False"
    /\ call # NoCall
    /\ CalledFrom \in Squares
    /\ CalledTo \in Squares
    /\ CalledFrom # CalledTo
    /\ At(board, CalledFrom) # None
    /\ At(board, CalledFrom).color # player_turn
    /\ movers # <<>>

\* the squares of the board b that hold the king of a colour
KingSquares(b, color) == {sq \in Squares : At(b, sq) = King(color)}

\* C26: in every state the king flag of a colour is true exactly if one king
\* of that colour stands on the board, and no colour has two kings on the
\* board.
C26_KingFlagAgreesWithBoard ==
    \A color \in Colors :
        /\ king_status[color] <=> Cardinality(KingSquares(board, color)) = 1
        /\ Cardinality(KingSquares(board, color)) <= 1

====
